---- MODULE Spec2Model ----
(***************************************************************************)
(* Distributed search for counterexamples to Beal's conjecture.            *)
(*                                                                         *)
(* The module models src/beal.cc (the second, current translation unit,    *)
(* lines 208-507: modpow, gcd, cz, axby, work) and the manager / worker    *)
(* snippets of the README (src/unnamed/part_001).                          *)
(*                                                                         *)
(* Machine words are scaled: uint32_t is a word of WordBits bits and       *)
(* uint64_t a word of 2*WordBits bits, so that every wrap-around of the    *)
(* C++ arithmetic has its counterpart at a size that can be enumerated.    *)
(***************************************************************************)
EXTENDS Integers, Sequences, FiniteSets, TLC

\* ------------------------------------------------------------- bounds ----
WordBits == 4      \* width of the scaled uint32_t / unsigned int
MaxIn    == 3      \* inputs are drawn from the MaxIn lowest and highest values
MaxB     == 4      \* largest max_base explored
MaxP     == 4      \* largest max_pow explored
MaxPrimes == 2     \* longest list of filter moduli explored
MaxMods  == 2      \* filter moduli are 1 and the MaxMods highest word values
MaxRuns  == 2      \* dowork calls made on one work object
MaxHits  == 2      \* longest candidate list submitted to finish_work
MaxShards == 2     \* largest max_base of the manager explored

Word  == 2^WordBits          \* uint32_t values are 0..Word-1
DWord == 2^(2*WordBits)      \* uint64_t values are 0..DWord-1

\* the n lowest and the n highest values below top, from lo on
LowHigh(lo, n, top) == { v \in lo..(top-1) : v < lo + n \/ v >= top - n }

VARIABLES
  mp,    \* activation of modpow: base, exponent, mod, result, pc
  gd,    \* activation of c_gcd: u, v, ret, pc
  czo,   \* a cz object: constructor arguments, loop counters, vals_, exists_, mod_
  ax,    \* an axby cursor behind axby_make / axby_next
  wk,    \* a work object and the activation of dowork
  co     \* the manager (coordinator) of the README

vars == <<mp, gd, czo, ax, wk, co>>

\* ------------------------------------------------------------- modpow ----
\* variant of modpow_step whose products are exact instead of wrapping
modpow_step_exact(s) ==
  [s EXCEPT
     !.result   = IF s.exponent % 2 = 1
                    THEN (s.result * s.base) % s.mod
                    ELSE s.result,
     !.exponent = s.exponent \div 2,
     !.base     = (s.base * s.base) % s.mod]

\* one iteration of the while loop of modpow (beal.cc 221-224); the products
\* are uint64_t products
modpow_step(s) ==
  [s EXCEPT
     !.result   = IF s.exponent % 2 = 1
                    THEN ((s.result * s.base) % DWord) % s.mod
                    ELSE s.result,
     !.exponent = s.exponent \div 2,
     !.base     = ((s.base * s.base) % DWord) % s.mod]

RECURSIVE modpow_loop(_)
modpow_loop(s) == IF s.exponent > 0 THEN modpow_loop(modpow_step(s)) ELSE s

\* variant of modpow_entry without the reduction of base before the loop
modpow_entry_raw(base, exponent, mod) ==
  [result |-> 1, base |-> base, exponent |-> exponent, mod |-> mod]

\* uint64_t result = 1; base = base % mod;
modpow_entry(base, exponent, mod) ==
  [result |-> 1, base |-> base % mod, exponent |-> exponent, mod |-> mod]

\* the uint32_t returned by modpow(base, exponent, mod)
modpow(base, exponent, mod) ==
  modpow_loop(modpow_entry(base, exponent, mod)).result % Word

\* modpow without "base = base % mod": the same loop entered with the
\* unreduced base
modpow_raw(base, exponent, mod) ==
  modpow_loop(modpow_entry_raw(base, exponent, mod)).result % Word

\* ---------------------------------------------------------------- gcd ----
\* for (shift = 0; ((u | v) & 1) == 0; ++shift) { u >>= 1; v >>= 1; }
RECURSIVE gcd_common(_, _, _)
gcd_common(u, v, shift) ==
  IF u % 2 = 0 /\ v % 2 = 0
    THEN gcd_common(u \div 2, v \div 2, shift + 1)
    ELSE <<u, v, shift>>

\* while ((w & 1) == 0) w >>= 1;
RECURSIVE gcd_strip(_)
gcd_strip(w) == IF w % 2 = 0 THEN gcd_strip(w \div 2) ELSE w

\* do { strip v; swap so that u <= v; v = v - u; } while (v != 0);
RECURSIVE gcd_do(_, _)
gcd_do(u, v) ==
  LET v1 == gcd_strip(v)
      u2 == IF u > v1 THEN v1 ELSE u
      v2 == IF u > v1 THEN u ELSE v1
      v3 == (v2 - u2) % Word
  IN  IF v3 # 0 THEN gcd_do(u2, v3) ELSE u2

\* variant of gcd that forgets to restore the common factors of 2
gcd_noshift(u, v) ==
  IF u = 0 THEN v
  ELSE IF v = 0 THEN u
  ELSE LET t == gcd_common(u, v, 0)
       IN  gcd_do(gcd_strip(t[1]), t[2])

gcd(u, v) ==
  IF u = 0 THEN v
  ELSE IF v = 0 THEN u
  ELSE LET t == gcd_common(u, v, 0)
       IN  (gcd_do(gcd_strip(t[1]), t[2]) * 2^(t[3])) % Word

\* reference greatest common divisor (Euclid), used only to state properties
RECURSIVE euclid(_, _)
euclid(u, v) == IF v = 0 THEN u ELSE euclid(v, u % v)

\* reference (base^exponent) mod m, used only to state properties: exact
\* integer arithmetic on b^e = (b^(e div 2))^2 * b^(e mod 2), reduced mod m
RECURSIVE powmod(_, _, _)
powmod(base, exponent, m) ==
  IF exponent = 0 THEN 1 % m
  ELSE LET h == powmod(base, exponent \div 2, m)
       IN  (((h * h) % m) * (IF exponent % 2 = 1 THEN base % m ELSE 1)) % m

\* ----------------------------------------------------------------- cz ----
\* variant of cz_alloc whose bit table starts with a bit set
cz_alloc_dirty(maxb, maxp, mod) ==
  [maxb |-> maxb, maxp |-> maxp, mod |-> mod,
   vals_ |-> [c \in 0..maxb |-> <<>>],
   exists_ |-> {0},
   mod_ |-> 0]

\* vals_.resize(maxb+1); exists_.resize(1ULL<<32): rows are empty vectors,
\* no bit is set; mod_ is assigned by the last statement of the constructor
cz_alloc(maxb, maxp, mod) ==
  [maxb |-> maxb, maxp |-> maxp, mod |-> mod,
   vals_ |-> [c \in 0..maxb |-> <<>>],
   exists_ |-> {},
   mod_ |-> 0]

\* variant of cz_body that clears the row on every pass
cz_body_clear(o, c, z) ==
  LET val == modpow(c, z, o.mod)
      row == [k \in 0..o.maxp |-> 0]
  IN  [o EXCEPT !.vals_[c] = [row EXCEPT ![z] = val],
                !.exists_  = @ \cup {val}]

\* body of the inner loop for (c, z), with vals_[c].resize(maxp+1) when the
\* row is entered at z = 3
cz_body(o, c, z) ==
  LET val == modpow(c, z, o.mod)
      row == IF z = 3 THEN [k \in 0..o.maxp |-> 0] ELSE o.vals_[c]
  IN  [o EXCEPT !.vals_[c] = [row EXCEPT ![z] = val],
                !.exists_  = @ \cup {val}]

RECURSIVE cz_fill(_, _, _)
cz_fill(o, c, z) ==
  IF c > o.maxb THEN [o EXCEPT !.mod_ = o.mod]
  ELSE IF z > o.maxp THEN cz_fill(o, c + 1, 3)
  ELSE cz_fill(cz_body(o, c, z), c, z + 1)

\* new cz(maxb, maxp, mod)
cz_new(maxb, maxp, mod) == cz_fill(cz_alloc(maxb, maxp, mod), 1, 3)

cz_get(o, c, z)  == o.vals_[c][z]
cz_exists(o, val) == val \in o.exists_
cz_mod(o)        == o.mod_

\* --------------------------------------------------------------- axby ----
Point(a, x, b, y) == [a |-> a, x |-> x, b |-> b, y |-> y]

\* axby(maxb, maxp, a): p_(a, 3, 1, 3), then p_.y--
axby_new(maxb, maxp, a) ==
  [maxb_ |-> maxb, maxp_ |-> maxp, p_ |-> Point(a, 3, 1, 2), a_dim_ |-> a]

\* variant of axby_roll that never skips a b sharing a factor with a
axby_roll_nogcd(s) ==
  IF s.p_.b > s.p_.a
    THEN [s |-> [s EXCEPT !.p_.a = @ + 1], done |-> TRUE]
    ELSE [s |-> s, done |-> FALSE]

\* variant of axby_roll that signals done without bumping p_.a
RECURSIVE axby_roll_nobump(_)
axby_roll_nobump(s) ==
  IF s.p_.b > s.p_.a
    THEN [s |-> s, done |-> TRUE]
  ELSE IF gcd(s.p_.a, s.p_.b) > 1
    THEN axby_roll_nobump([s EXCEPT !.p_.b = @ + 1])
  ELSE [s |-> s, done |-> FALSE]

\* the for (;;) loop of next(): b rolls over, or skips a b sharing a factor
RECURSIVE axby_roll(_)
axby_roll(s) ==
  IF s.p_.b > s.p_.a
    THEN [s |-> [s EXCEPT !.p_.a = @ + 1], done |-> TRUE]
  ELSE IF gcd(s.p_.a, s.p_.b) > 1
    THEN axby_roll([s EXCEPT !.p_.b = @ + 1])
  ELSE [s |-> s, done |-> FALSE]

\* variant of axby_next that advances x innermost and y next
axby_next_xfirst(s) ==
  IF s.p_.y < 3
    THEN [s |-> [s EXCEPT !.p_.y = 3], done |-> FALSE]
  ELSE IF s.p_.x + 1 > s.maxp_
    THEN IF s.p_.y + 1 > s.maxp_
           THEN axby_roll([s EXCEPT !.p_.y = 3, !.p_.x = 3, !.p_.b = @ + 1])
           ELSE [s |-> [s EXCEPT !.p_.x = 3, !.p_.y = @ + 1], done |-> FALSE]
  ELSE [s |-> [s EXCEPT !.p_.x = @ + 1], done |-> FALSE]

\* variant of axby_next that steps b by two when x rolls over
axby_next_bskip(s) ==
  IF s.p_.y + 1 > s.maxp_
    THEN IF s.p_.x + 1 > s.maxp_
           THEN axby_roll([s EXCEPT !.p_.y = 3, !.p_.x = 3, !.p_.b = @ + 2])
           ELSE [s |-> [s EXCEPT !.p_.y = 3, !.p_.x = @ + 1], done |-> FALSE]
    ELSE [s |-> [s EXCEPT !.p_.y = @ + 1], done |-> FALSE]

\* variant of axby_next that walks the whole space: when b rolls over it
\* moves on to the next a, and signals done only past maxb
axby_next_space(s) ==
  LET r == IF s.p_.y + 1 > s.maxp_
             THEN IF s.p_.x + 1 > s.maxp_
                    THEN axby_roll([s EXCEPT !.p_.y = 3, !.p_.x = 3, !.p_.b = @ + 1])
                    ELSE [s |-> [s EXCEPT !.p_.y = 3, !.p_.x = @ + 1], done |-> FALSE]
             ELSE [s |-> [s EXCEPT !.p_.y = @ + 1], done |-> FALSE]
  IN  IF r.done /\ r.s.p_.a <= s.maxb_
        THEN [s |-> [r.s EXCEPT !.p_.b = 1], done |-> FALSE]
        ELSE r

\* next(&done) below its assertion: the cursor after the call and *done
axby_next(s) ==
  IF s.p_.y + 1 > s.maxp_
    THEN IF s.p_.x + 1 > s.maxp_
           THEN axby_roll([s EXCEPT !.p_.y = 3, !.p_.x = 3, !.p_.b = @ + 1])
           ELSE [s |-> [s EXCEPT !.p_.y = 3, !.p_.x = @ + 1], done |-> FALSE]
    ELSE [s |-> [s EXCEPT !.p_.y = @ + 1], done |-> FALSE]

\* assert(p_.a == a_dim_)
axby_assert(s) == s.p_.a = s.a_dim_

\* ------------------------------------- axby, the full-space version ----
\* axby(maxb, maxp, a, x, b, y) of the first version in beal.cc: p_(a, x,
\* b, y), then p_.y--
axby_full_new(maxb, maxp, a, x, b, y) ==
  [maxb_ |-> maxb, maxp_ |-> maxp, p_ |-> Point(a, x, b, y - 1)]

\* variant of axby_full_roll that moves to the next a without p_.b = 1
RECURSIVE axby_full_roll_keepb(_)
axby_full_roll_keepb(s) ==
  IF s.p_.b > s.p_.a
    THEN IF s.p_.a + 1 > s.maxb_
           THEN [s |-> [s EXCEPT !.p_.a = @ + 1], ok |-> FALSE]
           ELSE axby_full_roll_keepb([s EXCEPT !.p_.a = @ + 1])
  ELSE IF gcd(s.p_.a, s.p_.b) > 1
    THEN axby_full_roll_keepb([s EXCEPT !.p_.b = @ + 1])
  ELSE [s |-> s, ok |-> TRUE]

\* the for (;;) loop of the full-space next(): when b rolls over it starts
\* the next a at b = 1; ok is false when assert(false) is reached
RECURSIVE axby_full_roll(_)
axby_full_roll(s) ==
  IF s.p_.b > s.p_.a
    THEN IF s.p_.a + 1 > s.maxb_
           THEN [s |-> [s EXCEPT !.p_.b = 1, !.p_.a = @ + 1], ok |-> FALSE]
           ELSE axby_full_roll([s EXCEPT !.p_.b = 1, !.p_.a = @ + 1])
  ELSE IF gcd(s.p_.a, s.p_.b) > 1
    THEN axby_full_roll([s EXCEPT !.p_.b = @ + 1])
  ELSE [s |-> s, ok |-> TRUE]

\* the full-space next(): the cursor after the call, and whether it returned
axby_full_next(s) ==
  IF s.p_.y + 1 > s.maxp_
    THEN IF s.p_.x + 1 > s.maxp_
           THEN axby_full_roll([s EXCEPT !.p_.y = 3, !.p_.x = 3, !.p_.b = @ + 1])
           ELSE [s |-> [s EXCEPT !.p_.y = 3, !.p_.x = @ + 1], ok |-> TRUE]
    ELSE [s |-> [s EXCEPT !.p_.y = @ + 1], ok |-> TRUE]

\* --------------------------------------------------------------- work ----
\* variant of work_new that builds the cz of the first modulus only
work_new_first(maxb, maxp, primes) ==
  [maxb_ |-> maxb, maxp_ |-> maxp,
   czs_ |-> [i \in 1..(IF Len(primes) > 0 THEN 1 ELSE 0) |->
               cz_new(maxb, maxp, primes[i])]]

\* work(maxb, maxp, primes, nprimes): one cz per modulus, in order
work_new(maxb, maxp, primes) ==
  [maxb_ |-> maxb, maxp_ |-> maxp,
   czs_ |-> [i \in 1..Len(primes) |-> cz_new(maxb, maxp, primes[i])]]

\* uint64_t tmp = czp->get(pt.a, pt.x) + czp->get(pt.b, pt.y): the operands
\* are uint32_t, so the sum is formed in 32 bits before it is widened
dowork_tmp(czp, pt) == (cz_get(czp, pt.a, pt.x) + cz_get(czp, pt.b, pt.y)) % Word

\* uint32_t val = tmp % czp->mod()
dowork_val(czp, pt) == (dowork_tmp(czp, pt) % cz_mod(czp)) % Word

\* the for loop over czs_ for point pt, from filter it on: where it stops
RECURSIVE dowork_it(_, _, _)
dowork_it(w, pt, it) ==
  IF it > Len(w.czs_) THEN it
  ELSE IF ~cz_exists(w.czs_[it], dowork_val(w.czs_[it], pt)) THEN it
  ELSE dowork_it(w, pt, it + 1)

\* the while loop of dowork from cursor pts on: the points it prints
RECURSIVE dowork_while(_, _)
dowork_while(w, pts) ==
  LET r == axby_next(pts)
  IN  IF r.done THEN <<>>
      ELSE (IF dowork_it(w, r.s.p_, 1) > Len(w.czs_) THEN <<r.s.p_>> ELSE <<>>)
             \o dowork_while(w, r.s)

\* dowork(a) as a whole: the points it prints
dowork(w, a) == dowork_while(w, axby_new(w.maxb_, w.maxp_, a))

\* -------------------------------------------------------------------------
\* A component that takes no part in a specification stays switched off.
Off == [pc |-> "off"]

\* ============================ modpow, stepped =============================
\* c_modpow(base, exponent, mod) with the arguments a caller may pass
InitModpow ==
  /\ mp \in { [pc |-> "call", base |-> b, exponent |-> e, mod |-> m] :
                b \in LowHigh(0, MaxIn, DWord),
                e \in LowHigh(0, MaxIn, DWord),
                m \in LowHigh(1, MaxIn, Word) }
  /\ gd = Off /\ czo = Off /\ ax = Off /\ wk = Off /\ co = Off

\* uint64_t result = 1; base = base % mod;
modpow_enter ==
  /\ mp.pc = "call"
  /\ mp' = [pc |-> "loop", base |-> mp.base, exponent |-> mp.exponent,
            mod |-> mp.mod, s |-> modpow_entry(mp.base, mp.exponent, mp.mod)]
  /\ UNCHANGED <<gd, czo, ax, wk, co>>

\* one pass through the body of while (exponent > 0)
modpow_iter ==
  /\ mp.pc = "loop"
  /\ mp.s.exponent > 0
  /\ mp' = [mp EXCEPT !.s = modpow_step(mp.s)]
  /\ UNCHANGED <<gd, czo, ax, wk, co>>

\* assert(result <= 2^32 - 1); return result;
modpow_return ==
  /\ mp.pc = "loop"
  /\ mp.s.exponent = 0
  /\ mp' = [pc |-> "ret", base |-> mp.base, exponent |-> mp.exponent,
            mod |-> mp.mod, s |-> mp.s,
            assert_ok |-> (mp.s.result <= Word - 1),
            ret |-> mp.s.result % Word]
  /\ UNCHANGED <<gd, czo, ax, wk, co>>

NextModpow == modpow_enter \/ modpow_iter \/ modpow_return

SpecModpow == InitModpow /\ [][NextModpow]_vars

\* ================================= gcd ====================================
InitGcd ==
  /\ gd \in { [pc |-> "call", u |-> u, v |-> v] : u \in 0..(Word-1), v \in 0..(Word-1) }
  /\ mp = Off /\ czo = Off /\ ax = Off /\ wk = Off /\ co = Off

\* c_gcd(u, v)
c_gcd ==
  /\ gd.pc = "call"
  /\ gd' = [pc |-> "ret", u |-> gd.u, v |-> gd.v, ret |-> gcd(gd.u, gd.v)]
  /\ UNCHANGED <<mp, czo, ax, wk, co>>

NextGcd == c_gcd

SpecGcd == InitGcd /\ [][NextGcd]_vars

\* ========================= cz, constructor stepped ========================
\* cz_make(maxb, maxp, mod) with arguments that pass the three assertions
InitCz ==
  /\ czo \in { [pc |-> "build", c |-> 1, z |-> 3, o |-> cz_alloc(maxb, maxp, m)] :
                 maxb \in 1..MaxB, maxp \in 3..MaxP, m \in 1..(Word-1) }
  /\ mp = Off /\ gd = Off /\ ax = Off /\ wk = Off /\ co = Off

\* one pass through the body of the inner loop, and the loop headers that
\* follow it
cz_iter ==
  /\ czo.pc = "build"
  /\ czo.c <= czo.o.maxb
  /\ czo' = [czo EXCEPT !.o = cz_body(czo.o, czo.c, czo.z),
                        !.z = IF czo.z + 1 > czo.o.maxp THEN 3 ELSE czo.z + 1,
                        !.c = IF czo.z + 1 > czo.o.maxp THEN czo.c + 1 ELSE czo.c]
  /\ UNCHANGED <<mp, gd, ax, wk, co>>

\* the outer loop ends: mod_ = mod
cz_finish ==
  /\ czo.pc = "build"
  /\ czo.c > czo.o.maxb
  /\ czo' = [czo EXCEPT !.pc = "built", !.o = [czo.o EXCEPT !.mod_ = czo.o.mod]]
  /\ UNCHANGED <<mp, gd, ax, wk, co>>

NextCz == cz_iter \/ cz_finish

SpecCz == InitCz /\ [][NextCz]_vars

\* ============================ axby cursor =================================
\* axby_make(maxb, maxp, a) for a shard of the search space
InitAxby ==
  /\ ax \in { [pc |-> "open", s |-> axby_new(maxb, maxp, a), done |-> FALSE,
               calls |-> 0, emitted |-> <<>>] :
                maxb \in 1..MaxB, maxp \in 3..MaxP, a \in 1..MaxB }
  /\ ax.s.a_dim_ <= ax.s.maxb_
  /\ mp = Off /\ gd = Off /\ czo = Off /\ wk = Off /\ co = Off

\* axby_next(axbyp, pp): the assertion of next() holds
axby_next_call ==
  /\ ax.pc = "open"
  /\ axby_assert(ax.s)
  /\ LET r == axby_next(ax.s)
     IN  ax' = [ax EXCEPT !.s = r.s, !.done = r.done, !.calls = @ + 1,
                          !.emitted = IF r.done THEN @ ELSE Append(@, r.s.p_)]
  /\ UNCHANGED <<mp, gd, czo, wk, co>>

\* axby_next(axbyp, pp): assert(p_.a == a_dim_) fails and the process aborts
axby_next_abort ==
  /\ ax.pc = "open"
  /\ ~axby_assert(ax.s)
  /\ ax' = [ax EXCEPT !.pc = "abort"]
  /\ UNCHANGED <<mp, gd, czo, wk, co>>

NextAxby == axby_next_call \/ axby_next_abort

SpecAxby == InitAxby /\ [][NextAxby]_vars

\* axby_make(maxb, maxp, a) with any arguments that pass the assertions of
\* the constructor: maxb > 0, maxp > 2, a > 0
InitAxbyAny ==
  /\ ax \in { [pc |-> "open", s |-> axby_new(maxb, maxp, a), done |-> FALSE,
               calls |-> 0, emitted |-> <<>>] :
                maxb \in 1..MaxB, maxp \in 3..MaxP, a \in 1..(MaxB + 1) }
  /\ mp = Off /\ gd = Off /\ czo = Off /\ wk = Off /\ co = Off

SpecAxbyAny == InitAxbyAny /\ [][NextAxby]_vars

\* a caller that keeps calling next() until done, as the loop of dowork does
SpecAxbyFair == InitAxby /\ [][NextAxby]_vars /\ WF_vars(axby_next_call)

\* ========================= axby, full-space cursor =========================
\* axby_make(maxb, maxp, a, 3, 1, 3) of the first version: the walk starts
\* at the first point of some a
InitAxbyFull ==
  /\ ax \in { [pc |-> "open", s |-> axby_full_new(maxb, maxp, a, 3, 1, 3),
               start |-> a, calls |-> 0, emitted |-> <<>>] :
                maxb \in 1..MaxB, maxp \in 3..MaxP, a \in 1..MaxB }
  /\ ax.start <= ax.s.maxb_
  /\ mp = Off /\ gd = Off /\ czo = Off /\ wk = Off /\ co = Off

\* one pass of the loop of axby_next(axbyp, pp, count): next() returns
axby_full_next_call ==
  /\ ax.pc = "open"
  /\ axby_full_next(ax.s).ok
  /\ LET r == axby_full_next(ax.s)
     IN  ax' = [ax EXCEPT !.s = r.s, !.calls = @ + 1,
                          !.emitted = Append(@, r.s.p_)]
  /\ UNCHANGED <<mp, gd, czo, wk, co>>

\* next() runs past maxb: assert(false)
axby_full_next_abort ==
  /\ ax.pc = "open"
  /\ ~axby_full_next(ax.s).ok
  /\ ax' = [ax EXCEPT !.pc = "abort", !.s = axby_full_next(ax.s).s]
  /\ UNCHANGED <<mp, gd, czo, wk, co>>

NextAxbyFull == axby_full_next_call \/ axby_full_next_abort

SpecAxbyFull == InitAxbyFull /\ [][NextAxbyFull]_vars

\* ====================== work object and dowork ============================
\* sequences over S of length 0..n
RECURSIVE SeqsUpTo(_, _)
SeqsUpTo(S, n) ==
  IF n = 0 THEN { <<>> }
  ELSE LET shorter == SeqsUpTo(S, n - 1)
       IN  shorter \cup { Append(q, e) : q \in { r \in shorter : Len(r) = n - 1 }, e \in S }

\* the lines work::work prints: one per modulus
RECURSIVE PrimeLines(_)
PrimeLines(primes) ==
  IF primes = <<>> THEN <<>>
  ELSE <<[prime |-> Head(primes)]>> \o PrimeLines(Tail(primes))

\* work_make(maxb, maxp, primes, nprimes); std::cout holds the moduli
InitWork ==
  /\ wk \in { [pc |-> "idle", w |-> work_new(maxb, maxp, primes),
               pts |-> axby_new(maxb, maxp, 1), done |-> FALSE, it |-> 1,
               out |-> PrimeLines(primes), mark |-> Len(primes), runs |-> 0,
               hist |-> <<>>] :
                maxb \in 1..MaxB, maxp \in 3..MaxP,
                primes \in SeqsUpTo({1} \cup ((Word - MaxMods)..(Word - 1)), MaxPrimes) }
  /\ mp = Off /\ gd = Off /\ czo = Off /\ ax = Off /\ co = Off

\* where the while body starts: the for loop, or past it when czs_ is empty
dowork_loop_pc(w) == IF Len(w.czs_) = 0 THEN "cand" ELSE "for"

\* variant of work_work that keeps the cursor of the previous call
work_work_stale(a) ==
  /\ wk.pc = "idle"
  /\ wk.runs < MaxRuns
  /\ LET r == axby_next(IF wk.runs = 0
                          THEN axby_new(wk.w.maxb_, wk.w.maxp_, a)
                          ELSE [wk.pts EXCEPT !.a_dim_ = wk.pts.p_.a])
     IN  wk' = [wk EXCEPT !.pts = r.s, !.done = r.done, !.it = 1,
                          !.mark = Len(wk.out),
                          !.runs = @ + 1,
                          !.hist = Append(@, [a |-> a, mark |-> Len(wk.out)]),
                          !.pc = IF r.done THEN "idle" ELSE dowork_loop_pc(wk.w)]
  /\ UNCHANGED <<mp, gd, czo, ax, co>>

\* work_work(workp, a): dowork up to the first test of while (!done); hist
\* notes the shard of each call and where its lines start in std::cout
work_work(a) ==
  /\ wk.pc = "idle"
  /\ wk.runs < MaxRuns
  /\ LET r == axby_next(axby_new(wk.w.maxb_, wk.w.maxp_, a))
     IN  wk' = [wk EXCEPT !.pts = r.s, !.done = r.done, !.it = 1,
                          !.mark = Len(wk.out),
                          !.runs = @ + 1,
                          !.hist = Append(@, [a |-> a, mark |-> Len(wk.out)]),
                          !.pc = IF r.done THEN "idle" ELSE dowork_loop_pc(wk.w)]
  /\ UNCHANGED <<mp, gd, czo, ax, co>>

\* variant of dowork_for without the break: the next filter is consulted
\* whatever this one says
dowork_for_nobreak ==
  /\ wk.pc = "for"
  /\ wk' = [wk EXCEPT !.it = @ + 1,
                      !.pc = IF wk.it + 1 > Len(wk.w.czs_) THEN "cand" ELSE "for"]
  /\ UNCHANGED <<mp, gd, czo, ax, co>>

\* variant of dowork_for that records the residue it probed in exists_
dowork_for_mark ==
  /\ wk.pc = "for"
  /\ LET czp == wk.w.czs_[wk.it]
         val == dowork_val(czp, wk.pts.p_)
     IN  IF ~cz_exists(czp, val)
           THEN wk' = [wk EXCEPT !.pc = "cand",
                                 !.w.czs_[wk.it].exists_ = @ \cup {val}]
           ELSE wk' = [wk EXCEPT !.it = @ + 1,
                                 !.pc = IF wk.it + 1 > Len(wk.w.czs_)
                                          THEN "cand" ELSE "for"]
  /\ UNCHANGED <<mp, gd, czo, ax, co>>

\* one pass through the for loop over czs_: break when the residue is absent
dowork_for ==
  /\ wk.pc = "for"
  /\ LET czp == wk.w.czs_[wk.it]
         val == dowork_val(czp, wk.pts.p_)
     IN  IF ~cz_exists(czp, val)
           THEN wk' = [wk EXCEPT !.pc = "cand"]
           ELSE wk' = [wk EXCEPT !.it = @ + 1,
                                 !.pc = IF wk.it + 1 > Len(wk.w.czs_)
                                          THEN "cand" ELSE "for"]
  /\ UNCHANGED <<mp, gd, czo, ax, co>>

\* variant of dowork_cand that goes round the loop without testing done
dowork_cand_nodone ==
  /\ wk.pc = "cand"
  /\ axby_assert(wk.pts)
  /\ LET r == axby_next(wk.pts)
     IN  wk' = [wk EXCEPT !.out = IF wk.it > Len(wk.w.czs_)
                                    THEN Append(@, wk.pts.p_) ELSE @,
                          !.pts = r.s, !.done = r.done, !.it = 1,
                          !.pc = dowork_loop_pc(wk.w)]
  /\ UNCHANGED <<mp, gd, czo, ax, co>>

\* if (it == czs_.end()) print the point; pt = pts.next(&done); loop test
dowork_cand ==
  /\ wk.pc = "cand"
  /\ axby_assert(wk.pts)
  /\ LET r == axby_next(wk.pts)
     IN  wk' = [wk EXCEPT !.out = IF wk.it > Len(wk.w.czs_)
                                    THEN Append(@, wk.pts.p_) ELSE @,
                          !.pts = r.s, !.done = r.done, !.it = 1,
                          !.pc = IF r.done THEN "idle" ELSE dowork_loop_pc(wk.w)]
  /\ UNCHANGED <<mp, gd, czo, ax, co>>

NextWork == (\E a \in 1..wk.w.maxb_ : work_work(a)) \/ dowork_for \/ dowork_cand

SpecWork == InitWork /\ [][NextWork]_vars

\* the index accepts the point: the residue of the exact sum is present
ExactAccept(czp, pt) ==
  cz_exists(czp, (cz_get(czp, pt.a, pt.x) + cz_get(czp, pt.b, pt.y)) % cz_mod(czp))

\* C2: a point of the enumerator is emitted if and only if every index
\* contains (value(a, x) + value(b, y)) mod m_i, the sum being the exact
\* integer sum of the two residues, for every modulus that fits a word.
C2_EmitIffAllAccept ==
  [][ wk.pc = "cand" =>
        ( (wk'.out = Append(wk.out, wk.pts.p_))
          <=> (\A i \in 1..Len(wk.w.czs_) : ExactAccept(wk.w.czs_[i], wk.pts.p_)) ) ]_vars

\* ======================= manager (coordinator) ============================
\* The two RPC endpoints of prob-manager.py as the README gives them.  Each
\* runs under "with self._lock", so a handler is one atomic step.  The work
\* queue behind __get_work() and _work_queue.complete() is not part of the
\* sources; it is modelled from the specification: pending shards are handed
\* out once each, complete() marks a shard and tells whether it was marked.
None == [none |-> TRUE]

\* the candidate lists a client may submit for shard a
Results(a) ==
  { [i \in 1..n |-> Point(a, 3, 1, 2 + i)] : n \in 0..MaxHits }

\* the work queue of a manager launched for max_base shards
queue_new(maxb) ==
  [pending |-> { <<a>> : a \in 1..maxb }, outstanding |-> {}, completed |-> {}]

\* __get_work(): the parts that may be handed out next
queue_next(q) == q.pending

\* the queue after part has been handed out
queue_take(q, part) ==
  [q EXCEPT !.pending = @ \ {part}, !.outstanding = @ \cup {part}]

\* _work_queue.complete(spec): the duplicate flag and the queue afterwards
queue_complete(q, part) ==
  [dupe |-> part \in q.completed,
   queue |-> [q EXCEPT !.outstanding = @ \ {part}, !.completed = @ \cup {part}]]

\* the manager after launch with (max_base, max_pow, primes) and with or
\* without an output file
manager_new(maxb, maxp, primes, output) ==
  [pc |-> "serving", maxb |-> maxb, maxp |-> maxp, primes |-> primes,
   output |-> output, queue |-> queue_new(maxb), log |-> <<>>,
   given |-> [a \in 1..maxb |-> 0],
   lastget |-> None, first |-> [a \in 1..maxb |-> None],
   lastfin |-> [part |-> <<0>>, differs |-> FALSE],
   failed |-> {}]

InitCoord ==
  /\ co \in { manager_new(maxb, MaxP, <<Word - 1>>, output) :
                maxb \in 1..MaxShards, output \in BOOLEAN }
  /\ mp = Off /\ gd = Off /\ czo = Off /\ ax = Off /\ wk = Off

\* variant of get_work that fills max_base of the work_spec from max_pow
get_work_swapped(part) ==
  /\ co.pc = "serving"
  /\ part \in queue_next(co.queue)
  /\ co' = [co EXCEPT
       !.queue = queue_take(co.queue, part),
       !.given[part[1]] = @ + 1,
       !.lastget = [exhausted |-> \A a \in 1..co.maxb : co.given[a] >= 1,
                    reply |-> [max_base |-> co.maxp, max_pow |-> co.maxp,
                               primes |-> co.primes, part |-> part]]]
  /\ UNCHANGED <<mp, gd, czo, ax, wk>>

\* the body of get_work() when __get_work() returns part: the manager c
\* afterwards; lastget holds the work_spec returned
get_work_do(c, part) ==
  [c EXCEPT
     !.queue = queue_take(c.queue, part),
     !.given[part[1]] = @ + 1,
     !.lastget = [exhausted |-> \A a \in 1..c.maxb : c.given[a] >= 1,
                  reply |-> [max_base |-> c.maxb, max_pow |-> c.maxp,
                             primes |-> c.primes, part |-> part]]]

\* get_work(): a part is left and is returned inside a work_spec
get_work(part) ==
  /\ co.pc = "serving"
  /\ part \in queue_next(co.queue)
  /\ co' = get_work_do(co, part)
  /\ UNCHANGED <<mp, gd, czo, ax, wk>>

\* the body of get_work() when no part is left
get_work_none_do(c) ==
  [c EXCEPT !.lastget = [exhausted |-> \A a \in 1..c.maxb : c.given[a] >= 1,
                         reply |-> None]]

\* get_work(): "if not part: return None"
get_work_none ==
  /\ co.pc = "serving"
  /\ queue_next(co.queue) = {}
  /\ co' = get_work_none_do(co)
  /\ UNCHANGED <<mp, gd, czo, ax, wk>>

\* variant of finish_work that does not return on a duplicate
finish_work_nodupe(part, results, k, fail) ==
  /\ co.pc = "serving"
  /\ part \in co.queue.outstanding \cup co.queue.completed
  /\ k = Len(results) \/ (fail /\ co.output)
  /\ LET c    == queue_complete(co.queue, part)
         a    == part[1]
         snap == [part |-> part,
                  differs |-> co.first[a] # None /\ co.first[a].results # results]
         frst == IF co.first[a] = None THEN [results |-> results] ELSE co.first[a]
     IN  co' = [co EXCEPT
                  !.queue = c.queue,
                  !.lastfin = snap,
                  !.first[a] = frst,
                  !.log = IF co.output THEN @ \o SubSeq(results, 1, k) ELSE @,
                  !.failed = IF fail /\ co.output THEN @ \cup {part} ELSE @]
  /\ UNCHANGED <<mp, gd, czo, ax, wk>>

\* the body of finish_work(spec, results): the manager m afterwards.  fail:
\* the open / write / flush raises after k lines have reached the file, and
\* the exception leaves the handler.
finish_work_do(m, part, results, k, fail) ==
  LET c    == queue_complete(m.queue, part)
      a    == part[1]
      snap == [part |-> part,
               differs |-> m.first[a] # None /\ m.first[a].results # results]
      frst == IF m.first[a] = None THEN [results |-> results] ELSE m.first[a]
  IN  IF c.dupe
        THEN [m EXCEPT !.queue = c.queue, !.lastfin = snap, !.first[a] = frst]
        ELSE [m EXCEPT
               !.queue = c.queue,
               !.lastfin = snap,
               !.first[a] = frst,
               !.log = IF m.output THEN @ \o SubSeq(results, 1, k) ELSE @,
               !.failed = IF fail /\ m.output THEN @ \cup {part} ELSE @]

\* finish_work(spec, results) for a part that was handed out
finish_work(part, results, k, fail) ==
  /\ co.pc = "serving"
  /\ part \in co.queue.outstanding \cup co.queue.completed
  /\ k = Len(results) \/ (fail /\ co.output)
  /\ co' = finish_work_do(co, part, results, k, fail)
  /\ UNCHANGED <<mp, gd, czo, ax, wk>>

NextCoord ==
  \/ \E a \in 1..co.maxb : get_work(<<a>>)
  \/ get_work_none
  \/ \E a \in 1..co.maxb : \E results \in Results(a) :
       \E k \in 0..Len(results) : \E fail \in BOOLEAN :
         finish_work(<<a>>, results, k, fail)

SpecCoord == InitCoord /\ [][NextCoord]_vars

\* =============== manager: finish_work handlers in parallel ================
\* Two RPC handler threads of the manager, each serving one finish_work
\* call, stepped statement by statement.  "with self._lock" is the only
\* synchronisation; the file object buffers what f.write is given until
\* f.flush().  Every shard has been handed out, none is complete.
Handlers == {"h1", "h2"}

\* the queue after get_work has handed out every part
queue_all_taken(maxb) ==
  [pending |-> {}, outstanding |-> { <<a>> : a \in 1..maxb }, completed |-> {}]

\* variant of file_open that truncates the file: open(self._output, 'w')
file_open_w(content) == <<>>

\* open(self._output, 'a'): what the file holds once it is open
file_open(content) == content

InitConc ==
  /\ co \in { [pc |-> "parallel", output |-> output,
               queue |-> queue_all_taken(MaxShards), log |-> <<>>,
               lock |-> "free", th |-> th] :
                output \in BOOLEAN,
                th \in [Handlers -> { [pc |-> "call", part |-> <<a>>,
                                       results |-> results, buf |-> <<>>,
                                       dupe |-> FALSE] :
                                         a \in 1..MaxShards,
                                         results \in UNION { Results(b) : b \in 1..MaxShards } }] }
  /\ \A t \in Handlers : \A i \in DOMAIN co.th[t].results :
       co.th[t].results[i].a = co.th[t].part[1]
  /\ mp = Off /\ gd = Off /\ czo = Off /\ ax = Off /\ wk = Off

\* variant of fw_lock that enters without holding the lock
fw_lock_free(t) ==
  /\ co.pc = "parallel"
  /\ co.th[t].pc = "call"
  /\ co' = [co EXCEPT !.th[t].pc = "complete"]
  /\ UNCHANGED <<mp, gd, czo, ax, wk>>

\* with self._lock: the thread enters once the lock is free
fw_lock(t) ==
  /\ co.pc = "parallel"
  /\ co.th[t].pc = "call"
  /\ co.lock = "free"
  /\ co' = [co EXCEPT !.lock = t, !.th[t].pc = "complete"]
  /\ UNCHANGED <<mp, gd, czo, ax, wk>>

\* dupe = self._work_queue.complete(spec); if dupe: return;
\* if self._output: ... else: print (spec, results)
fw_complete(t) ==
  /\ co.pc = "parallel"
  /\ co.th[t].pc = "complete"
  /\ LET c == queue_complete(co.queue, co.th[t].part)
     IN  co' = [co EXCEPT !.queue = c.queue,
                          !.th[t].dupe = c.dupe,
                          !.th[t].pc = IF ~c.dupe /\ co.output
                                         THEN "open" ELSE "unlock"]
  /\ UNCHANGED <<mp, gd, czo, ax, wk>>

\* with open(self._output, 'a') as f
fw_open(t) ==
  /\ co.pc = "parallel"
  /\ co.th[t].pc = "open"
  /\ co' = [co EXCEPT !.log = file_open(@), !.th[t].pc = "write"]
  /\ UNCHANGED <<mp, gd, czo, ax, wk>>

\* one pass through "for result in results": f.write of one line
fw_write(t) ==
  /\ co.pc = "parallel"
  /\ co.th[t].pc = "write"
  /\ Len(co.th[t].buf) < Len(co.th[t].results)
  /\ co' = [co EXCEPT !.th[t].buf =
                         Append(@, co.th[t].results[Len(co.th[t].buf) + 1])]
  /\ UNCHANGED <<mp, gd, czo, ax, wk>>

\* f.flush() after the loop, and the file is closed
fw_flush(t) ==
  /\ co.pc = "parallel"
  /\ co.th[t].pc = "write"
  /\ Len(co.th[t].buf) = Len(co.th[t].results)
  /\ co' = [co EXCEPT !.log = @ \o co.th[t].buf, !.th[t].pc = "unlock"]
  /\ UNCHANGED <<mp, gd, czo, ax, wk>>

\* the handler leaves "with self._lock" and returns
fw_unlock(t) ==
  /\ co.pc = "parallel"
  /\ co.th[t].pc = "unlock"
  /\ co' = [co EXCEPT !.lock = IF @ = t THEN "free" ELSE @,
                      !.th[t].pc = "returned"]
  /\ UNCHANGED <<mp, gd, czo, ax, wk>>

NextConc ==
  \E t \in Handlers :
    fw_lock(t) \/ fw_complete(t) \/ fw_open(t) \/ fw_write(t) \/ fw_flush(t)
      \/ fw_unlock(t)

SpecConc == InitConc /\ [][NextConc]_vars

\* ====================== workers and manager together ======================
\* Worker processes (prob-worker.py) running the README's loop against the
\* manager.  An RPC is one step: the handler runs under the manager's lock
\* and its return value is what the worker receives.  beal.search is not
\* part of the sources; it is modelled from the specification as an object
\* that answers max_base(), max_pow() and primes() with what it was built
\* from.  The manager may be stopped and launched again, once, with another
\* configuration, while no work unit is out.
Workers == {"w1", "w2"}

\* (max_base, max_pow, primes) of a work_spec
Config(work_spec) ==
  [max_base |-> work_spec.max_base, max_pow |-> work_spec.max_pow,
   primes |-> work_spec.primes]

\* variant of setup_context that switches to the context of the work_spec
setup_context_rebind(search, work_spec) ==
  [search |-> Config(work_spec), ok |-> TRUE]

\* setup_context(work_spec): the global search afterwards, and whether the
\* three assertions held
setup_context(search, work_spec) ==
  IF search = None
    THEN [search |-> Config(work_spec), ok |-> TRUE]
    ELSE [search |-> search,
          ok |-> /\ work_spec.max_base = search.max_base
                 /\ work_spec.max_pow = search.max_pow
                 /\ work_spec.primes = search.primes]

\* a worker process at the top of run(), search = None
worker_new ==
  [pc |-> "get_work", search |-> None, work_spec |-> None, hits |-> <<>>]

InitLoop ==
  /\ co \in { manager_new(maxb, MaxP, <<Word - 1>>, output) :
                maxb \in 1..MaxShards, output \in BOOLEAN }
  /\ wk = [pc |-> "workers", relaunched |-> FALSE,
           th |-> [w \in Workers |-> worker_new]]
  /\ mp = Off /\ gd = Off /\ czo = Off /\ ax = Off

\* work_spec = self._server.get_work() returns a work_spec
run_get_work(w) ==
  /\ wk.pc = "workers" /\ wk.th[w].pc = "get_work"
  /\ \E part \in queue_next(co.queue) :
       /\ co' = get_work_do(co, part)
       /\ wk' = [wk EXCEPT !.th[w].work_spec = co'.lastget.reply,
                           !.th[w].pc = "setup"]
  /\ UNCHANGED <<mp, gd, czo, ax>>

\* variant of run_no_work that leaves the loop when there is no work
run_no_work_exit(w) ==
  /\ wk.pc = "workers" /\ wk.th[w].pc = "get_work"
  /\ queue_next(co.queue) = {}
  /\ co' = get_work_none_do(co)
  /\ wk' = [wk EXCEPT !.th[w].pc = "exited"]
  /\ UNCHANGED <<mp, gd, czo, ax>>

\* work_spec = self._server.get_work() returns None: "if not work_spec"
run_no_work(w) ==
  /\ wk.pc = "workers" /\ wk.th[w].pc = "get_work"
  /\ queue_next(co.queue) = {}
  /\ co' = get_work_none_do(co)
  /\ wk' = [wk EXCEPT !.th[w].pc = "sleep"]
  /\ UNCHANGED <<mp, gd, czo, ax>>

\* time.sleep(10); continue
run_sleep(w) ==
  /\ wk.pc = "workers" /\ wk.th[w].pc = "sleep"
  /\ wk' = [wk EXCEPT !.th[w].pc = "get_work"]
  /\ UNCHANGED <<mp, gd, czo, ax, co>>

\* variant of run_setup_context that goes on to finish_work without a search
run_setup_context_skip(w) ==
  /\ wk.pc = "workers" /\ wk.th[w].pc = "setup"
  /\ LET r == setup_context(wk.th[w].search, wk.th[w].work_spec)
     IN  wk' = [wk EXCEPT !.th[w].search = r.search,
                          !.th[w].pc = IF r.ok THEN "finish" ELSE "dead"]
  /\ UNCHANGED <<mp, gd, czo, ax, co>>

\* setup_context(work_spec); a failed assertion ends the process
run_setup_context(w) ==
  /\ wk.pc = "workers" /\ wk.th[w].pc = "setup"
  /\ LET r == setup_context(wk.th[w].search, wk.th[w].work_spec)
     IN  wk' = [wk EXCEPT !.th[w].search = r.search,
                          !.th[w].pc = IF r.ok THEN "search" ELSE "dead"]
  /\ UNCHANGED <<mp, gd, czo, ax, co>>

\* part = work_spec['part']; hits = search.search(part[0])
run_search(w) ==
  /\ wk.pc = "workers" /\ wk.th[w].pc = "search"
  /\ \E hits \in Results(wk.th[w].work_spec.part[1]) :
       wk' = [wk EXCEPT !.th[w].hits = hits, !.th[w].pc = "finish"]
  /\ UNCHANGED <<mp, gd, czo, ax, co>>

\* variant of run_finish_work that goes back to the loop head without the RPC
run_finish_work_skip(w) ==
  /\ wk.pc = "workers" /\ wk.th[w].pc = "finish"
  /\ wk' = [wk EXCEPT !.th[w].work_spec = None, !.th[w].hits = <<>>,
                      !.th[w].pc = "get_work"]
  /\ UNCHANGED <<mp, gd, czo, ax, co>>

\* self._server.finish_work(part, tuple(hits)), and back to the loop head
run_finish_work(w) ==
  /\ wk.pc = "workers" /\ wk.th[w].pc = "finish"
  /\ co' = finish_work_do(co, wk.th[w].work_spec.part, wk.th[w].hits,
                          Len(wk.th[w].hits), FALSE)
  /\ wk' = [wk EXCEPT !.th[w].work_spec = None, !.th[w].hits = <<>>,
                      !.th[w].pc = "get_work"]
  /\ UNCHANGED <<mp, gd, czo, ax>>

\* the manager is launched again with (max_base, max_pow, primes)
manager_relaunch(maxb, maxp) ==
  /\ wk.pc = "workers" /\ ~wk.relaunched
  /\ \A w \in Workers : wk.th[w].pc \in {"get_work", "sleep", "dead"}
  /\ co' = manager_new(maxb, maxp, co.primes, co.output)
  /\ wk' = [wk EXCEPT !.relaunched = TRUE]
  /\ UNCHANGED <<mp, gd, czo, ax>>

\* the steps of worker w
run(w) ==
  \/ run_get_work(w) \/ run_no_work(w) \/ run_sleep(w)
  \/ run_setup_context(w) \/ run_search(w) \/ run_finish_work(w)

NextLoop ==
  \/ \E w \in Workers : run(w)
  \/ \E maxb \in 1..MaxShards : \E maxp \in {MaxP - 1, MaxP} :
       manager_relaunch(maxb, maxp)

SpecLoop == InitLoop /\ [][NextLoop]_vars

\* every worker process keeps running its loop
SpecLoopFair == SpecLoop /\ \A w \in Workers : WF_vars(run(w))

\* one lifetime of the manager: the workers run, the manager stays up
NextRun == \E w \in Workers : run(w)

\* no worker crashes: every worker process keeps running its loop
SpecRunFair == InitLoop /\ [][NextRun]_vars /\ \A w \in Workers : WF_vars(run(w))

\* ============================== properties ================================
Range(q) == { q[i] : i \in DOMAIN q }
NoDup(q) == \A i, j \in DOMAIN q : i # j => q[i] # q[j]

\* the valid points of shard a: b <= a, coprime, exponents in 3..maxp
RefSet(a, maxp) ==
  { Point(a, x, b, y) : x \in 3..maxp, y \in 3..maxp,
                        b \in { k \in 1..a : euclid(a, k) = 1 } }

\* C3: the points next() returns with done = false, up to the first call
\* that returns done = true, are the valid points of the shard, each exactly
\* once and nothing else.
C3_EnumeratesRefSet ==
  ax.pc # "off" =>
    /\ NoDup(ax.emitted)
    /\ Range(ax.emitted) \subseteq RefSet(ax.s.a_dim_, ax.s.maxp_)
    /\ ax.done => Range(ax.emitted) = RefSet(ax.s.a_dim_, ax.s.maxp_)

\* a shard with a skipped b (a = 4 skips b = 2 and b = 4) has been exhausted
C3_Witness ==
  /\ ax.pc = "open" /\ ax.done
  /\ ax.s.a_dim_ = 4 /\ ax.s.maxp_ = 4
  /\ Len(ax.emitted) = 8

\* C4: modpow returns (base^exponent) mod m for every modulus m > 0 and
\* every exponent, exponent 0 and modulus 1 included.
C4_ModpowMatchesReference ==
  mp.pc = "ret" => mp.ret = powmod(mp.base, mp.exponent, mp.mod)

\* C5: the binary gcd returns the Euclidean greatest common divisor, with
\* gcd(0, v) = v, gcd(u, 0) = u and gcd(0, 0) = 0.
C5_GcdMatchesEuclid ==
  gd.pc = "ret" =>
    /\ gd.ret = euclid(gd.u, gd.v)
    /\ gd.u = 0 => gd.ret = gd.v
    /\ gd.v = 0 => gd.ret = gd.u

\* gcd(12, 8) has gone through the common-factor loop twice and returned 4
C5_Witness == gd.pc = "ret" /\ gd.u = 12 /\ gd.v = 8 /\ gd.ret = 4

\* C6: after construction, get(c, z) = modpow(c, z, m) and
\* exists(get(c, z)) for every c in 1..maxb and z in 3..maxp.
C6_CzValues ==
  czo.pc = "built" =>
    \A c \in 1..czo.o.maxb, z \in 3..czo.o.maxp :
      /\ cz_get(czo.o, c, z) = modpow(c, z, czo.o.mod)
      /\ cz_exists(czo.o, cz_get(czo.o, c, z))

\* a built index with several rows, several columns and several residues
C6_Witness ==
  /\ czo.pc = "built" /\ czo.o.maxb >= 3 /\ czo.o.maxp >= 4
  /\ Cardinality(czo.o.exists_) >= 3

\* C7: after construction, exists(r) only if some populated (c, z) has
\* get(c, z) = r.
C7_ExistsOnlyPopulated ==
  czo.pc = "built" =>
    \A r \in 0..(Word-1) :
      cz_exists(czo.o, r) =>
        \E c \in 1..czo.o.maxb, z \in 3..czo.o.maxp : cz_get(czo.o, c, z) = r

\* a built index in which some residues are present and residue 0 is absent
C7_Witness ==
  /\ czo.pc = "built"
  /\ ~cz_exists(czo.o, 0)
  /\ Cardinality(czo.o.exists_) >= 2

\* the lines of the log that belong to shard a
ShardLines(log, a) == SelectSeq(log, LAMBDA l : l.a = a)
IsPrefix(q, r) == Len(q) <= Len(r) /\ q = SubSeq(r, 1, Len(q))

C9_GetWorkOnce ==
  co.pc = "serving" =>
    /\ \A a \in 1..co.maxb : co.given[a] <= 1
    /\ co.lastget # None =>
         /\ co.lastget.reply # None =>
              /\ co.lastget.reply.max_base = co.maxb
              /\ co.lastget.reply.max_pow = co.maxp
              /\ co.lastget.reply.primes = co.primes
              /\ co.lastget.reply.part[1] \in 1..co.maxb
         /\ co.lastget.exhausted => co.lastget.reply = None

\* every shard of a two-shard search was handed out once and the next
\* get_work returned None
C9_Witness ==
  /\ co.pc = "serving" /\ co.maxb = 2
  /\ \A a \in 1..co.maxb : co.given[a] = 1
  /\ co.lastget # None /\ co.lastget.exhausted /\ co.lastget.reply = None

\* C10: when the write to the result log fails during finish_work(S, R),
\* shard S is not marked complete.
C10_FailedWriteNotComplete ==
  co.pc = "serving" => \A part \in co.failed : part \notin co.queue.completed

\* strict lexicographic order on (b, x, y)
LexLess(p, q) ==
  \/ p.b < q.b
  \/ p.b = q.b /\ p.x < q.x
  \/ p.b = q.b /\ p.x = q.x /\ p.y < q.y

\* C15: the points returned by successive next() calls are strictly
\* increasing in the lexicographic order on (b, x, y): y advances innermost,
\* then x, then b.
C15_LexOrder ==
  ax.pc # "off" =>
    \A i \in 1..(Len(ax.emitted) - 1) :
      /\ LexLess(ax.emitted[i], ax.emitted[i + 1])
      /\ ax.emitted[i].y < ax.s.maxp_ =>
           /\ ax.emitted[i + 1].y = ax.emitted[i].y + 1
           /\ ax.emitted[i + 1].x = ax.emitted[i].x
           /\ ax.emitted[i + 1].b = ax.emitted[i].b
      /\ (ax.emitted[i].y = ax.s.maxp_ /\ ax.emitted[i].x < ax.s.maxp_) =>
           /\ ax.emitted[i + 1].y = 3
           /\ ax.emitted[i + 1].x = ax.emitted[i].x + 1
           /\ ax.emitted[i + 1].b = ax.emitted[i].b

\* y, x and b have each advanced: shard 3 with exponents 3..4 is exhausted
C15_Witness ==
  /\ ax.pc = "open" /\ ax.done /\ ax.s.a_dim_ = 3 /\ ax.s.maxp_ = 4
  /\ Len(ax.emitted) = 8
  /\ ax.emitted[1] = Point(3, 3, 1, 3) /\ ax.emitted[8] = Point(3, 4, 2, 4)

\* C16: every point returned with done = false by a cursor whose constructor
\* arguments pass the assertions maxb > 0, maxp > 2, a > 0 is valid:
\* 1 <= b <= a <= maxb, 3 <= x, y <= maxp, gcd(a, b) = 1.
C16_PointsValid ==
  ax.pc # "off" =>
    \A i \in DOMAIN ax.emitted :
      LET p == ax.emitted[i]
      IN  /\ 1 <= p.b /\ p.b <= p.a /\ p.a <= ax.s.maxb_
          /\ 3 <= p.x /\ p.x <= ax.s.maxp_
          /\ 3 <= p.y /\ p.y <= ax.s.maxp_
          /\ euclid(p.a, p.b) = 1

\* C17 as stated: for a_fixed = 3 the b component of the emitted points
\* ranges only over {1}.
C17_OnlyBOne ==
  (ax.pc # "off" /\ ax.s.a_dim_ = 3) =>
    \A i \in DOMAIN ax.emitted : ax.emitted[i].b = 1

\* C17 as amended: for a_fixed = 3, b = 3 is skipped and the b component of
\* the emitted points ranges over {1, 2}.
C17_BOneTwo ==
  (ax.pc # "off" /\ ax.s.a_dim_ = 3) =>
    /\ \A i \in DOMAIN ax.emitted : ax.emitted[i].b \in {1, 2}
    /\ ax.done => { ax.emitted[i].b : i \in DOMAIN ax.emitted } = {1, 2}

\* shard 3 is exhausted and its last point has b = 2
C17_Witness ==
  /\ ax.pc = "open" /\ ax.done /\ ax.s.a_dim_ = 3
  /\ ax.emitted[Len(ax.emitted)].b = 2

\* the number of valid points of shard a
NPoints(a, maxp) ==
  Cardinality({ k \in 1..a : euclid(a, k) = 1 }) * (maxp - 2) * (maxp - 2)

C20_ModpowNoOverflow ==
  /\ mp.pc = "loop" =>
       /\ mp.s.result < Word /\ mp.s.base < Word
       /\ mp.s.result * mp.s.base < DWord
       /\ mp.s.base * mp.s.base < DWord
  /\ mp.pc = "ret" => mp.assert_ok

\* the loop multiplies with the largest residue of the largest modulus, for
\* a base that does not fit 32 bits
C20_Witness ==
  /\ mp.pc = "loop" /\ mp.base >= Word /\ mp.mod = Word - 1
  /\ mp.s.exponent > 0 /\ mp.s.result = mp.mod - 1

\* the lines that call k of dowork has printed so far
RunLines(k) ==
  SubSeq(wk.out, wk.hist[k].mark + 1,
         IF k < Len(wk.hist) THEN wk.hist[k + 1].mark ELSE Len(wk.out))

\* C14: two executions of dowork(a) for the same shard under the same
\* configuration emit the same points in the same order: the later one has,
\* at every step, printed a leading part of what the earlier one printed,
\* and all of it when it returns.
C14_RerunIdentical ==
  wk.pc # "off" =>
    \A i \in DOMAIN wk.hist : \A j \in DOMAIN wk.hist :
      (i < j /\ wk.hist[i].a = wk.hist[j].a) =>
        /\ IsPrefix(RunLines(j), RunLines(i))
        /\ (j < Len(wk.hist) \/ wk.pc = "idle") => RunLines(j) = RunLines(i)

\* shard 3 has been searched twice against a modulus that fits a word
\* only just; both runs printed candidates, and the sieve rejected points
C14_Witness ==
  /\ wk.pc = "idle" /\ Len(wk.hist) = 2
  /\ wk.hist[1].a = 3 /\ wk.hist[2].a = 3
  /\ Len(wk.w.czs_) = 1 /\ cz_mod(wk.w.czs_[1]) = Word - 1
  /\ Len(RunLines(2)) > 0
  /\ Len(RunLines(2)) < NPoints(3, wk.w.maxp_)

\* how often line l occurs in q
Count(q, l) == Cardinality({ i \in DOMAIN q : q[i] = l })

\* both handlers have returned
BothReturned == \A t \in Handlers : co.th[t].pc = "returned"

\* the statements of finish_work inside "with self._lock"
InCritical(t) == co.th[t].pc \in {"complete", "open", "write", "unlock"}

\* C11: two finish_work calls for distinct shards that run in parallel leave
\* a result log whose multiset of lines is the multiset union of the two
\* candidate lists, under every interleaving; while they run every line of
\* the log comes whole from one of the lists, no more often than it is there.
C11_DistinctShardsUnion ==
  (co.pc = "parallel" /\ co.output /\ co.th["h1"].part # co.th["h2"].part) =>
    /\ \A i \in DOMAIN co.log :
         Count(co.log, co.log[i])
           <= Count(co.th["h1"].results, co.log[i])
                + Count(co.th["h2"].results, co.log[i])
    /\ BothReturned =>
         \A l \in Range(co.log) \cup Range(co.th["h1"].results)
                                \cup Range(co.th["h2"].results) :
           Count(co.log, l) = Count(co.th["h1"].results, l)
                                + Count(co.th["h2"].results, l)

\* both calls carried candidates, for shards 1 and 2, and have returned
C11_Witness ==
  /\ co.pc = "parallel" /\ co.output /\ BothReturned
  /\ co.th["h1"].part = <<1>> /\ co.th["h2"].part = <<2>>
  /\ Len(co.th["h1"].results) = MaxHits /\ Len(co.th["h2"].results) = MaxHits
  /\ Len(co.log) = 2 * MaxHits /\ co.log[1].a = 2

\* C12: two finish_work calls for the same shard that run in parallel are
\* serialized by one critical section from the duplicate check to the
\* flush: the two are never inside it together, and when both have returned
\* exactly one has appended its candidates, the other saw the shard
\* complete and appended nothing.
C12_SameShardSerialized ==
  co.pc = "parallel" =>
    /\ ~(InCritical("h1") /\ InCritical("h2"))
    /\ \A t \in Handlers : InCritical(t) => co.lock = t
    /\ (BothReturned /\ co.th["h1"].part = co.th["h2"].part) =>
         \E t \in Handlers : \E u \in Handlers \ {t} :
           /\ ~co.th[t].dupe /\ co.th[u].dupe
           /\ co.th[u].buf = <<>>
           /\ co.output => co.log = co.th[t].results

\* both calls were for shard 1 with different candidate lists; the second
\* handler got the lock first and the first one was turned away
C12_Witness ==
  /\ co.pc = "parallel" /\ co.output /\ BothReturned
  /\ co.th["h1"].part = <<1>> /\ co.th["h2"].part = <<1>>
  /\ co.th["h1"].results # co.th["h2"].results
  /\ co.th["h1"].dupe /\ co.log = co.th["h2"].results /\ co.log # <<>>

\* C13: a worker binds to the configuration of the first work_spec it sets
\* up and never replaces it; when a later work_spec differs from it the
\* worker stops, without searching and without calling finish_work (the
\* manager is not touched), and a stopped worker takes no further step; a
\* search starts only for a work_spec that matches the bound configuration.
C13_BindFirstRefuseMismatch ==
  [][ wk.pc = "workers" =>
        \A w \in Workers :
          LET t == wk.th[w]
              u == wk'.th[w]
          IN  /\ t.search # None => u.search = t.search
              /\ (t.search = None /\ t.pc = "setup" /\ u # t) =>
                   (u.search = Config(t.work_spec) /\ u.pc = "search")
              /\ (t.search = None /\ u.search # None) => t.pc = "setup"
              /\ (t.pc = "setup" /\ t.search # None
                    /\ Config(t.work_spec) # t.search /\ u # t) =>
                   (u.pc = "dead" /\ co' = co /\ u.work_spec = t.work_spec)
              /\ t.pc = "dead" => u = t
              /\ (u.pc = "search" /\ t.pc # "search") =>
                   Config(u.work_spec) = u.search ]_vars

\* worker w1 is bound to one max_pow, was handed a work_spec with another
\* and has stopped; the part of that work_spec is still outstanding
C13_Witness ==
  /\ wk.pc = "workers" /\ wk.th["w1"].pc = "dead"
  /\ wk.th["w1"].search.max_pow # wk.th["w1"].work_spec.max_pow
  /\ wk.th["w1"].work_spec.part \in co.queue.outstanding

C21_PreReductionNeeded ==
  /\ (mp.pc = "ret" /\ mp.base >= Word /\ ~(mp.exponent = 0 /\ mp.mod = 1)) =>
       mp.ret = powmod(mp.base, mp.exponent, mp.mod)
  /\ mp.pc # "off" =>
       \E b \in LowHigh(0, MaxIn, DWord) : \E e \in LowHigh(0, MaxIn, DWord) :
         \E m \in LowHigh(1, MaxIn, Word) :
           /\ b >= Word
           /\ modpow_raw(b, e, m) # powmod(b, e, m)
           /\ modpow(b, e, m) = powmod(b, e, m)

\* modpow has returned the reference value for a base beyond 32 bits for
\* which the loop without the pre-reduction returns another value
C21_Witness ==
  /\ mp.pc = "ret" /\ mp.base >= Word
  /\ mp.ret = powmod(mp.base, mp.exponent, mp.mod)
  /\ modpow_raw(mp.base, mp.exponent, mp.mod) # mp.ret

RefLoopXY(a, b, maxp) ==
  [i \in 1..((maxp - 2) * (maxp - 2)) |->
     Point(a, 3 + ((i - 1) \div (maxp - 2)), b, 3 + ((i - 1) % (maxp - 2)))]

\* the loop over b of the reference for one a, from b on: b ascending to a,
\* skipping every b with gcd(a, b) > 1
RECURSIVE RefLoopB(_, _, _)
RefLoopB(a, b, maxp) ==
  IF b > a THEN <<>>
  ELSE (IF euclid(a, b) > 1 THEN <<>> ELSE RefLoopXY(a, b, maxp))
         \o RefLoopB(a, b + 1, maxp)

\* the reference nested loop from a on: a ascending to maxb
RECURSIVE RefLoop(_, _, _)
RefLoop(a, maxb, maxp) ==
  IF a > maxb THEN <<>>
  ELSE RefLoopB(a, 1, maxp) \o RefLoop(a + 1, maxb, maxp)

\* C24: the full-space cursor returns, call after call, the points of the
\* reference nested loop in its order, and all T of them before it stops;
\* for the cursor created at (1, 3, 1, 3) that is the whole space.
C24_FullSpaceMatchesLoop ==
  ax.pc # "off" =>
    LET ref == RefLoop(ax.start, ax.s.maxb_, ax.s.maxp_)
    IN  /\ ax.calls = Len(ax.emitted)
        /\ IsPrefix(ax.emitted, ref)
        /\ ax.pc = "abort" => ax.emitted = ref

\* the cursor created at (1, 3, 1, 3) for bases up to 3 and exponents up to
\* 4 has returned all 16 points and the call after them has stopped
C24_Witness ==
  /\ ax.pc = "abort" /\ ax.start = 1 /\ ax.s.maxb_ = 3 /\ ax.s.maxp_ = 4
  /\ Len(ax.emitted) = 16
  /\ ax.emitted[5] = Point(2, 3, 1, 3) /\ ax.emitted[16] = Point(3, 4, 2, 4)

\* C22: every cz::get(c, z) of the search loop of dowork(a), 1 <= a <= maxb,
\* has 1 <= c <= maxb and 3 <= z <= maxp, so its assertions hold and the
\* entry read was populated; the point that came with done = true is never
\* looked up.
C22_LookupsInRange ==
  wk.pc = "for" =>
    LET czp == wk.w.czs_[wk.it]
        pt  == wk.pts.p_
    IN  /\ ~wk.done
        /\ wk.it \in 1..Len(wk.w.czs_)
        /\ pt.a \in 1..czp.maxb /\ pt.x \in 3..czp.maxp
        /\ pt.b \in 1..czp.maxb /\ pt.y \in 3..czp.maxp
        /\ cz_get(czp, pt.a, pt.x) = modpow(pt.a, pt.x, czp.mod)
        /\ cz_get(czp, pt.b, pt.y) = modpow(pt.b, pt.y, czp.mod)

\* the second filter is about to look up the last point of the largest
\* shard
C22_Witness ==
  /\ wk.pc = "for" /\ wk.it = 2
  /\ wk.w.maxb_ = MaxB /\ wk.w.maxp_ = MaxP
  /\ wk.pts.p_ = Point(MaxB, MaxP, MaxB - 1, MaxP)

\* the points next() returns from cursor s on, up to done
RECURSIVE AxbySeq(_)
AxbySeq(s) ==
  LET r == axby_next(s)
  IN  IF r.done THEN <<>> ELSE <<r.s.p_>> \o AxbySeq(r.s)

\* q can be obtained from r by leaving elements out
RECURSIVE IsSubseq(_, _)
IsSubseq(q, r) ==
  IF q = <<>> THEN TRUE
  ELSE IF r = <<>> THEN FALSE
  ELSE IF Head(q) = Head(r) THEN IsSubseq(Tail(q), Tail(r))
  ELSE IsSubseq(q, Tail(r))

\* filter i of the work object accepts pt, as dowork computes it
Accepts(w, i, pt) == cz_exists(w.czs_[i], dowork_val(w.czs_[i], pt))

\* C23: the candidates of one dowork(a) are a subsequence of the points of
\* the enumerator for a, none twice; for each point the filters are
\* consulted in the order of the primes, every filter before the one at
\* hand has accepted, and the loop is left at the first that rejects.  (The
\* lines are compared where they can have changed: every step that prints
\* or starts a run sets it = 1.)
C23_OrderAndShortCircuit ==
  /\ [](wk.pc \in {"idle", "for", "cand"} =>
          /\ (wk.hist # <<>> /\ wk.it = 1) =>
               /\ IsSubseq(RunLines(Len(wk.hist)),
                           AxbySeq(axby_new(wk.w.maxb_, wk.w.maxp_,
                                            wk.hist[Len(wk.hist)].a)))
               /\ NoDup(RunLines(Len(wk.hist)))
          /\ wk.pc \in {"for", "cand"} =>
               /\ wk.it \in 1..(Len(wk.w.czs_) + 1)
               /\ \A i \in 1..(wk.it - 1) : Accepts(wk.w, i, wk.pts.p_)
               /\ (wk.pc = "cand" /\ wk.it <= Len(wk.w.czs_)) =>
                    ~Accepts(wk.w, wk.it, wk.pts.p_))
  /\ [][wk.pc = "for" =>
          \/ (wk'.pc = "cand" /\ wk'.it = wk.it /\ ~Accepts(wk.w, wk.it, wk.pts.p_))
          \/ (wk'.it = wk.it + 1 /\ Accepts(wk.w, wk.it, wk.pts.p_)
                /\ wk'.pc = IF wk'.it > Len(wk.w.czs_) THEN "cand" ELSE "for")]_vars

\* the first of two filters has rejected a point of shard 3 after an
\* earlier point of the shard was printed
C23_Witness ==
  /\ wk.pc = "cand" /\ wk.it = 1 /\ Len(wk.w.czs_) = 2
  /\ wk.hist # <<>> /\ wk.hist[Len(wk.hist)].a = 3
  /\ Len(RunLines(Len(wk.hist))) > 0

\* the moduli of the work object, in the order of its filters
Primes(w) == [i \in 1..Len(w.czs_) |-> cz_mod(w.czs_[i])]

\* the prime list the work object was built from, as its constructor
\* printed it ahead of the first dowork
PrimesGiven == [i \in 1..wk.hist[1].mark |-> wk.out[i].prime]

\* the rearrangements of sequence q
Perms(q) ==
  { [i \in 1..Len(q) |-> q[f[i]]] :
      f \in { g \in [1..Len(q) -> 1..Len(q)] :
                \A i, j \in 1..Len(q) : i # j => g[i] # g[j] } }

\* C26: the candidates of dowork(a) do not depend on the order of the
\* primes: a work object built from any rearrangement of the prime list
\* prints the same points in the same order.
C26_PrimeOrderIrrelevant ==
  (wk.pc = "idle" /\ wk.hist # <<>>) =>
    \A primes \in Perms(PrimesGiven) :
      dowork(work_new(wk.w.maxb_, wk.w.maxp_, primes), wk.hist[Len(wk.hist)].a)
        = RunLines(Len(wk.hist))

\* shard 3 has been searched with two different moduli of which the second
\* rejects points that the first accepts
C26_Witness ==
  /\ wk.pc = "idle" /\ wk.hist # <<>> /\ wk.hist[Len(wk.hist)].a = 3
  /\ Len(wk.w.czs_) = 2 /\ cz_mod(wk.w.czs_[1]) = 1
  /\ cz_mod(wk.w.czs_[2]) = Word - 1
  /\ Len(RunLines(Len(wk.hist))) < NPoints(3, wk.w.maxp_)

\* C27: dowork(a) leaves the residue tables, their moduli and maxb, maxp of
\* the work object as they were, and what it prints for shard a is what a
\* work object that has searched nothing before prints for a.
C27_DoworkKeepsIndices ==
  /\ [][wk.pc # "off" => wk'.w = wk.w]_vars
  /\ []((wk.pc = "idle" /\ wk.hist # <<>>) =>
          /\ wk.w = work_new(wk.w.maxb_, wk.w.maxp_, Primes(wk.w))
          /\ RunLines(Len(wk.hist)) = dowork(wk.w, wk.hist[Len(wk.hist)].a))

\* shard 2 has been searched after shard 3 on the same work object, with a
\* filter that rejected points in both runs
C27_Witness ==
  /\ wk.pc = "idle" /\ Len(wk.hist) = 2
  /\ wk.hist[1].a = 3 /\ wk.hist[2].a = 2
  /\ Len(wk.w.czs_) = 1 /\ cz_mod(wk.w.czs_[1]) = Word - 1
  /\ Len(RunLines(1)) < NPoints(3, wk.w.maxp_)
  /\ Len(RunLines(2)) < NPoints(2, wk.w.maxp_)

\* the candidate lists of the first finish_work call of the shards in
\* order, one after the other
RECURSIVE ConcatFirst(_)
ConcatFirst(order) ==
  IF order = <<>> THEN <<>>
  ELSE co.first[Head(order)[1]].results \o ConcatFirst(Tail(order))

\* the ways to put the parts of set S in a row
Orders(S) ==
  { q \in [1..Cardinality(S) -> S] : \A i, j \in DOMAIN q : i # j => q[i] # q[j] }

\* C28: in every state of a manager with an output file the result log is
\* the candidate lists of the shards marked complete, one list after the
\* other, each whole and in the order submitted; and the log is only ever
\* extended.
C28_LogIsConcatenation ==
  /\ []((co.pc = "serving" /\ co.output) =>
          \E order \in Orders(co.queue.completed) : co.log = ConcatFirst(order))
  /\ [][co.pc = "serving" => IsPrefix(co.log, co'.log)]_vars

\* worker w holds a work unit: between get_work and the return of finish_work
Busy(w) == wk.th[w].pc \in {"setup", "search", "finish"}

\* C29: with workers that follow the run loop the shards marked complete
\* are among those get_work has dispensed, and a worker calls finish_work
\* for S only after get_work returned S to it and its search of S returned:
\* a work unit is held by one worker, finish is reached from search only,
\* search from setup only, setup from a get_work that returned the unit,
\* and a shard becomes complete only by the finish_work of its holder.
C29_FinishAfterGetAndSearch ==
  /\ [](wk.pc = "workers" =>
          /\ \A part \in co.queue.completed : co.given[part[1]] >= 1
          /\ \A w \in Workers : Busy(w) =>
               /\ wk.th[w].work_spec # None
               /\ wk.th[w].work_spec.part \in co.queue.outstanding
               /\ co.given[wk.th[w].work_spec.part[1]] >= 1
               /\ \A v \in Workers \ {w} : Busy(v) =>
                    wk.th[v].work_spec.part # wk.th[w].work_spec.part)
  /\ [][wk.pc = "workers" =>
          /\ \A w \in Workers :
               LET t == wk.th[w]
                   u == wk'.th[w]
               IN  /\ (u.pc = "finish" /\ t.pc # "finish") =>
                        (t.pc = "search" /\ u.work_spec = t.work_spec)
                   /\ (u.pc = "search" /\ t.pc # "search") =>
                        (t.pc = "setup" /\ u.work_spec = t.work_spec)
                   /\ (u.pc = "setup" /\ t.pc # "setup") =>
                        /\ t.pc = "get_work"
                        /\ u.work_spec = co'.lastget.reply
                        /\ u.work_spec.part \in co.queue.pending
          /\ (co'.queue.completed # co.queue.completed
                /\ co'.queue.completed # {}) =>
               \E w \in Workers :
                 /\ wk.th[w].pc = "finish" /\ wk'.th[w].pc = "get_work"
                 /\ co'.queue.completed =
                      co.queue.completed \cup {wk.th[w].work_spec.part}]_vars

\* worker w2 has searched shard 2 and is about to call finish_work with
\* MaxHits candidates; shard 1 is complete already
C29_Witness ==
  /\ wk.pc = "workers" /\ wk.th["w2"].pc = "finish"
  /\ wk.th["w2"].work_spec.part = <<2>> /\ Len(wk.th["w2"].hits) = MaxHits
  /\ co.queue.completed = {<<1>>}

\* every a-value of the manager is marked complete
AllComplete == co.queue.completed = { <<a>> : a \in 1..co.maxb }

\* C30: when no worker crashes or meets a configuration mismatch and every
\* worker keeps running, every a-value in 1..max_base is eventually marked
\* complete; from then on get_work returns None and the queue and the
\* result log no longer change.
C30_AllEventuallyComplete ==
  /\ <>(wk.pc = "workers" /\ AllComplete)
  /\ []((wk.pc = "workers" /\ AllComplete) => queue_next(co.queue) = {})
  /\ [][(wk.pc = "workers" /\ AllComplete) =>
          /\ co'.queue = co.queue /\ co'.log = co.log
          /\ co' # co => co'.lastget.reply = None]_vars

\* all of MaxShards shards are complete, the log holds candidates of the
\* last one, and worker w1 has just been told that there is no work
C30_Witness ==
  /\ wk.pc = "workers" /\ co.maxb = MaxShards /\ AllComplete /\ co.output
  /\ co.lastget.reply = None /\ wk.th["w1"].pc = "sleep"
  /\ Len(co.log) > 0 /\ co.log[Len(co.log)].a = MaxShards

====
